---- MODULE Spec2Model ----
(***************************************************************************)
(* The i-PI socket protocol of ase/calculators/ipi.py: the codec           *)
(* (IPIProtocol), the driver (IPIServer) and the engine loop (IPIClient),  *)
(* over one TCP/unix stream connection.                                    *)
(*                                                                         *)
(* A byte stream is a sequence of frames; a frame is what one sendall()    *)
(* put on the wire, with its length in bytes.  A read asks for a number of *)
(* bytes, not for a frame, so a reader that is out of step with the writer *)
(* tears frames and decodes garbage.  Numeric payloads are symbolic: a     *)
(* frame carries the tag of the geometry it belongs to, and the unit       *)
(* factors (Bohr, Hartree) are not modelled.                               *)
(*                                                                         *)
(* Three systems are specified over the same variables:                    *)
(*   SpecClient  IPIClient.run against an arbitrary peer,                  *)
(*   SpecServer  IPIServer against an arbitrary engine,                    *)
(*   Spec        IPIServer and IPIClient.run composed.                     *)
(***************************************************************************)
EXTENDS Integers, Sequences, FiniteSets, TLC

VARIABLES
    server,    \* the IPIServer object's fields
    sthread,   \* the driver thread: where it is inside an IPIServer call
    subproc,   \* the process IPIServer launched with Popen (if any)
    client,    \* the IPIClient object and the position of run() in irun
    net,       \* the listening socket's queue and the connection's streams
    env        \* the arbitrary peer of SpecClient / engine of SpecServer

vars == <<server, sthread, subproc, client, net, env>>

---------------------------------------------------------------------------
(* Bounds of the model *)

MaxAtoms == 1        \* geometries have 0..MaxAtoms atoms
MaxPeerTokens == 4   \* tokens the arbitrary peer of the client sends in a run
MaxEngineTokens == 3 \* tokens the arbitrary engine sends to the server in a run
MaxCalls == 2        \* IPIServer.calculate calls made by the driver
MaxCloses == 2       \* IPIServer.close calls made by the driver

(* Program constants *)

TOKEN_LEN == 12      \* msg.ljust(12) / _recvall(12)
F64 == 8             \* np.dtype(np.float64).itemsize
I32 == 4             \* np.dtype(np.int32).itemsize
default_port == 31415

statements == {"POSDATA", "GETFORCE", "STATUS", "INIT", "EXIT"}
responses == {"READY", "HAVEDATA", "FORCEREADY", "NEEDINIT"}

ExitStatuses == {0, 1, 128}
NAtoms == 0..MaxAtoms

---------------------------------------------------------------------------
(* The codec, byte by byte.  A byte is a number in 0..255, a buffer a       *)
(* sequence of bytes.                                                       *)

\* The texts the model puts on the wire: the vocabulary and two words outside it.
Words == statements \cup responses \cup {"BOGUS", "?"}

\* msg.encode('ascii')
encode(msg) ==
    CASE msg = "POSDATA" -> <<80, 79, 83, 68, 65, 84, 65>>
      [] msg = "GETFORCE" -> <<71, 69, 84, 70, 79, 82, 67, 69>>
      [] msg = "STATUS" -> <<83, 84, 65, 84, 85, 83>>
      [] msg = "INIT" -> <<73, 78, 73, 84>>
      [] msg = "EXIT" -> <<69, 88, 73, 84>>
      [] msg = "READY" -> <<82, 69, 65, 68, 89>>
      [] msg = "HAVEDATA" -> <<72, 65, 86, 69, 68, 65, 84, 65>>
      [] msg = "FORCEREADY" -> <<70, 79, 82, 67, 69, 82, 69, 65, 68, 89>>
      [] msg = "NEEDINIT" -> <<78, 69, 69, 68, 73, 78, 73, 84>>
      [] msg = "BOGUS" -> <<66, 79, 71, 85, 83>>
      [] msg = "?" -> <<63>>

\* bytes.ljust(width): padded with spaces on the right up to width; a longer
\* buffer is left as it is.
ljust_unpadded(b, width) == b

ljust(b, width) ==
    IF Len(b) >= width THEN b ELSE b \o [i \in 1..(width - Len(b)) |-> 32]

\* bytes.rstrip(): trailing ASCII whitespace removed.
RECURSIVE rstrip(_)
rstrip(b) ==
    IF b # <<>> /\ b[Len(b)] \in {9, 10, 11, 12, 13, 32}
    THEN rstrip(SubSeq(b, 1, Len(b) - 1)) ELSE b

\* bytes.decode('ascii'): the text, "?" standing for any text that is not one
\* of Words; a byte above 127 does not decode.
decode(b) ==
    IF \E i \in 1..Len(b) : b[i] > 127 THEN "UnicodeDecodeError"
    ELSE IF \E t \in Words : encode(t) = b
         THEN CHOOSE t \in Words : encode(t) = b
         ELSE "?"

\* The 12 bytes sendmsg(msg) hands to sendall.
msg_bytes(msg) == ljust(encode(msg), TOKEN_LEN)

Pow2(n) == 2 ^ n

\* One float64, little-endian IEEE 754, for a whole number v, |v| < 2^20:
\* sign, 11 bits of exponent, the top 20 bits of the fraction; the other
\* 32 bits of the fraction are 0.
f64_bytes(v) ==
    IF v = 0 THEN <<0, 0, 0, 0, 0, 0, 0, 0>>
    ELSE LET a == IF v < 0 THEN -v ELSE v
             e == CHOOSE x \in 0..19 : Pow2(x) <= a /\ a < Pow2(x + 1)
             m == (a - Pow2(e)) * Pow2(20 - e)
             ex == e + 1023
         IN  <<0, 0, 0, 0, m % 256, (m \div 256) % 256,
               (ex % 16) * 16 + m \div 65536,
               (IF v < 0 THEN 128 ELSE 0) + ex \div 16>>

\* A decoded item: the number v, or a kind of value the model does not
\* compute ("nonfinite": inf or nan; "fraction"; "large").
Num(v) == [kind |-> "num", v |-> v]
NotNum(kind) == [kind |-> kind, v |-> 0]

\* The float64 in 8 bytes.
f64_value(b) ==
    LET ex == (b[8] % 128) * 16 + b[7] \div 16
        m == (b[7] % 16) * 65536 + b[6] * 256 + b[5]
        low == b[1] + b[2] + b[3] + b[4]
        e == ex - 1023
    IN  IF ex = 2047 THEN NotNum("nonfinite")
        ELSE IF ex = 0 /\ m = 0 /\ low = 0 THEN Num(0)
        ELSE IF low = 0 /\ e \in 0..19 /\ m % Pow2(20 - e) = 0
             THEN Num((IF b[8] >= 128 THEN -1 ELSE 1)
                      * ((Pow2(20) + m) \div Pow2(20 - e)))
             ELSE NotNum("fraction")

\* One int32, little-endian two's complement, |v| < 2^24.
i32_bytes(v) ==
    LET x == IF v < 0 THEN -v - 1 ELSE v
        d == <<x % 256, (x \div 256) % 256, (x \div 65536) % 256, 0>>
    IN  IF v < 0 THEN [i \in 1..4 |-> 255 - d[i]] ELSE d

i32_value(b) ==
    LET d == IF b[4] >= 128 THEN [i \in 1..4 |-> 255 - b[i]] ELSE b
        x == d[1] + 256 * d[2] + 65536 * d[3]
    IN  IF d[4] # 0 THEN NotNum("large")
        ELSE Num(IF b[4] >= 128 THEN -x - 1 ELSE x)

itemsize(dtype) == CASE dtype = "f64" -> F64 [] dtype = "i32" -> I32 [] OTHER -> 1

\* np.asarray(a, dtype).tobytes(): the items' bytes, one after another.
RECURSIVE tobytes(_, _)
tobytes(a, dtype) ==
    IF a = <<>> THEN <<>>
    ELSE (IF dtype = "f64" THEN f64_bytes(Head(a)) ELSE i32_bytes(Head(a)))
         \o tobytes(Tail(a), dtype)

\* np.frombuffer(buf, dtype): one item for every itemsize bytes.
RECURSIVE frombuffer(_, _)
frombuffer(buf, dtype) ==
    IF Len(buf) < itemsize(dtype) THEN <<>>
    ELSE <<IF dtype = "f64" THEN f64_value(SubSeq(buf, 1, 8))
           ELSE i32_value(SubSeq(buf, 1, 4))>>
         \o frombuffer(SubSeq(buf, itemsize(dtype) + 1, Len(buf)), dtype)

\* np.isfinite(a).all()
isfinite(a) == \A i \in 1..Len(a) : a[i].kind # "nonfinite"

---------------------------------------------------------------------------
(* The codec: IPIProtocol *)

\* What sendmsg(msg) hands to sendall: the token, left-justified to 12 bytes.
sendmsg(msg) == [k |-> "tok", tok |-> msg, val |-> 0, n |-> Len(msg_bytes(msg))]

\* What send(a, dtype) hands to sendall: itemsize * size raw bytes.
send(dtype, count, v) ==
    [k |-> dtype, tok |-> "", val |-> v,
     n |-> (CASE dtype = "f64" -> F64 [] dtype = "i32" -> I32 [] OTHER -> 1) * count]

\* socket.sendall(buf): the bytes join the stream; an empty buffer adds nothing.
sendall(w, f) == IF f.n = 0 THEN w ELSE Append(w, f)

RECURSIVE Avail(_)
Avail(w) == IF w = <<>> THEN 0 ELSE Head(w).n + Avail(Tail(w))

\* The first n bytes of stream w (n <= Avail(w)) and what is left of it.  A
\* frame cut by the read is torn: both parts are raw bytes from then on.
RECURSIVE Take(_, _)
Take(w, n) ==
    IF n = 0 \/ w = <<>> THEN [got |-> <<>>, rest |-> w]
    ELSE LET h == Head(w) IN
         IF h.n <= n
         THEN LET r == Take(Tail(w), n - h.n)
              IN  [got |-> <<h>> \o r.got, rest |-> r.rest]
         ELSE [got |-> <<[k |-> "raw", tok |-> "", val |-> 0, n |-> n]>>,
               rest |-> <<[k |-> "raw", tok |-> "", val |-> 0, n |-> h.n - n]>>
                         \o Tail(w)]

\* _recvall(nbytes) on stream w whose writer has (eof) or has not closed:
\* chunks are read until nbytes are collected; a read of zero bytes (the
\* writer closed and the stream is drained) raises SocketClosed, whatever
\* was collected before; otherwise the reader waits for more bytes.
recvall(w, nbytes, eof) ==
    IF Avail(w) >= nbytes
    THEN [status |-> "ok", got |-> Take(w, nbytes).got, rest |-> Take(w, nbytes).rest]
    ELSE IF eof
         THEN [status |-> "SocketClosed", got |-> <<>>, rest |-> <<>>]
         ELSE [status |-> "wait", got |-> <<>>, rest |-> w]

\* recvmsg(): the 12 bytes read, stripped and decoded as ASCII: the possible
\* results.  Bytes that are not one whole token frame either decode to a word
\* outside the vocabulary ("?") or fail to decode.
recvmsg(got) ==
    IF Len(got) = 1 /\ got[1].k = "tok" /\ got[1].n = TOKEN_LEN
    THEN {got[1].tok} ELSE {"?", "UnicodeDecodeError"}

\* recv(shape, dtype): the possible results of decoding the bytes read.  One
\* whole frame of that dtype decodes to its array (an empty array reads
\* nothing).  Any other bytes are garbage: the decoded numbers are arbitrary,
\* so the array either fails a check made on it (finite floats, a count that
\* is a valid dimension) or is taken for some value.
recv(got, dtype, nbytes) ==
    IF nbytes = 0 THEN {[ok |-> TRUE, val |-> 0]}
    ELSE IF Len(got) = 1 /\ got[1].k = dtype /\ got[1].n = nbytes
         THEN {[ok |-> TRUE, val |-> got[1].val]}
         ELSE {[ok |-> FALSE, val |-> 0]}
              \cup {[ok |-> TRUE, val |-> v] : v \in NAtoms}

\* sendall on a connection whose reader has closed may still succeed (the
\* bytes are dropped by the peer) or raise a transport error.
SendResults(readerClosed) == IF readerClosed THEN {"ok", "OSError"} ELSE {"ok"}

---------------------------------------------------------------------------
(* IPIClient *)

NewClient ==
    [pc |-> "new", state |-> "unset", closed |-> FALSE, msg |-> "",
     cell |-> 0, natoms |-> 0, positions |-> 0,
     energy |-> 0, fnatoms |-> 0, forces |-> 0, virial |-> 0, have |-> FALSE,
     result |-> "none", exc |-> "", exitat |-> "", last |-> ""]

\* The injected evaluator (atoms.get_potential_energy/get_forces/get_stress):
\* its result names the geometry it was computed for.
Evaluate_not_recomputed(c) == [c EXCEPT !.have = TRUE]

Evaluate(c) ==
    [c EXCEPT !.energy = c.cell, !.fnatoms = c.natoms,
              !.forces = c.positions, !.virial = c.cell, !.have = TRUE]

\* IPIClient.close(): closes the socket unless already closed.
close(c, n) ==
    IF ~c.closed
    THEN <<[c EXCEPT !.closed = TRUE], [n EXCEPT !.cclosed = TRUE]>>
    ELSE <<c, n>>

\* irun leaves by return: close() and return, then the finally clause.
Return(c, n, why) ==
    LET a == close(c, n)
        b == close(a[1], a[2])
    IN  <<[b[1] EXCEPT !.pc = "done", !.result = "returned", !.exc = why,
                       !.exitat = c.pc], b[2]>>

\* irun leaves by an exception: the finally clause closes, the error propagates.
Raise_no_finally(c, n, exc) ==
    <<[c EXCEPT !.pc = "done", !.result = "raised", !.exc = exc,
                !.exitat = c.pc], n>>

Raise(c, n, exc) ==
    LET a == close(c, n)
    IN  <<[a[1] EXCEPT !.pc = "done", !.result = "raised", !.exc = exc,
                       !.exitat = c.pc], a[2]>>

\* except SocketClosed around recvmsg(): a clean exit.
on_SocketClosed_reraise(c, n) == Raise(c, n, "SocketClosed")

on_SocketClosed(c, n) == Return(c, n, "SocketClosed")

\* if msg == 'EXIT': close and return.
on_EXIT_unhandled(c, n) == <<c, n>>

on_EXIT(c, n) == Return(c, n, "EXIT")

\* The if/elif chain has no else: any other token falls through to the next
\* turn of the loop.
on_other_raise(c, n) == Raise(c, n, "AssertionError")

on_other(c, n) == <<c, n>>

\* elif msg == 'STATUS': the token sent in reply.
status_reply_ready(state) == "READY"

status_reply(state) == state

\* IPIClient.__init__: connect, state = 'READY'.
ClientConnect ==
    /\ client.pc = "new"
    /\ subproc.state # "exited"
    /\ net.listen
    /\ net.conn = "none"
    /\ client' = [client EXCEPT !.pc = "recvmsg", !.state = "READY"]
    /\ net' = [net EXCEPT !.conn = "pending"]
    /\ UNCHANGED <<server, sthread, subproc, env>>

\* The assertions of the POSDATA and GETFORCE branches.
posdata_legal_unchecked(state) == TRUE
posdata_legal(state) == state = "READY"
getforce_legal_unchecked(state) == TRUE
getforce_legal(state) == state = "HAVEDATA"

\* One turn of the loop: read a token and dispatch on it.
ClientRecvmsg ==
    /\ client.pc = "recvmsg"
    /\ net.conn \in {"pending", "accepted", "reset"}
    /\ IF net.conn = "reset"
       THEN \* the read fails with a transport error
            /\ client' = Raise(client, net, "OSError")[1]
            /\ net' = Raise(client, net, "OSError")[2]
       ELSE
       LET r == recvall(net.s2c, TOKEN_LEN, net.sclosed)
           n1 == [net EXCEPT !.s2c = r.rest]
       IN
       /\ r.status # "wait"
       /\ \E sr \in SendResults(net.sclosed), msg \in recvmsg(r.got) :
          LET c1 == [client EXCEPT !.msg = msg, !.last = msg]
              out ==
            CASE r.status = "SocketClosed" -> on_SocketClosed(client, n1)
              [] msg = "UnicodeDecodeError" -> Raise(client, n1, msg)
              [] msg = "EXIT" -> on_EXIT(c1, n1)
              [] msg = "STATUS" ->
                   IF sr = "ok"
                   THEN <<c1, IF n1.sclosed THEN n1
                              ELSE [n1 EXCEPT !.c2s = sendall(@, sendmsg(status_reply(client.state)))]>>
                   ELSE Raise(c1, n1, "OSError")
              [] msg = "POSDATA" ->
                   IF posdata_legal(client.state)
                   THEN <<[c1 EXCEPT !.pc = "recv_cell"], n1>>
                   ELSE Raise(c1, n1, "AssertionError")
              [] msg = "GETFORCE" ->
                   IF getforce_legal(client.state)
                   THEN <<[c1 EXCEPT !.pc = "sendforce"], n1>>
                   ELSE Raise(c1, n1, "AssertionError")
              [] OTHER -> on_other(c1, n1)
          IN client' = out[1] /\ net' = out[2]
    /\ UNCHANGED <<server, sthread, subproc, env>>

\* recvposdata(): cell, icell, natoms, positions, one recv() each.
PosdataBytes(pc, natoms) ==
    CASE pc = "recv_cell" -> F64 * 9
      [] pc = "recv_icell" -> F64 * 9
      [] pc = "recv_natoms" -> I32
      [] pc = "recv_positions" -> F64 * natoms * 3

PosdataType(pc) == IF pc = "recv_natoms" THEN "i32" ELSE "f64"

PosdataNext(pc) ==
    CASE pc = "recv_cell" -> "recv_icell"
      [] pc = "recv_icell" -> "recv_natoms"
      [] pc = "recv_natoms" -> "recv_positions"
      [] pc = "recv_positions" -> "evaluate"

ClientRecvposdata ==
    /\ client.pc \in {"recv_cell", "recv_icell", "recv_natoms", "recv_positions"}
    /\ LET nbytes == PosdataBytes(client.pc, client.natoms)
           r == recvall(net.s2c, nbytes, net.sclosed)
           n1 == [net EXCEPT !.s2c = r.rest]
       IN
       /\ r.status # "wait"
       /\ \E a \in recv(r.got, PosdataType(client.pc), nbytes) :
          LET
           c1 == CASE client.pc = "recv_cell" -> [client EXCEPT !.cell = a.val]
                   [] client.pc = "recv_natoms" -> [client EXCEPT !.natoms = a.val]
                   [] client.pc = "recv_positions" -> [client EXCEPT !.positions = a.val]
                   [] OTHER -> client
           out == CASE r.status = "SocketClosed" -> Raise(client, n1, "SocketClosed")
                    [] ~a.ok -> Raise(client, n1, "AssertionError")
                    [] OTHER -> <<[c1 EXCEPT !.pc = PosdataNext(client.pc)], n1>>
          IN client' = out[1] /\ net' = out[2]
    /\ UNCHANGED <<server, sthread, subproc, env>>

\* The evaluator is called on the received geometry; then state = 'HAVEDATA'.
ClientEvaluate ==
    /\ client.pc = "evaluate"
    /\ \E ok \in BOOLEAN :
         LET out == IF ok
                    THEN <<[Evaluate(client) EXCEPT !.state = "HAVEDATA",
                                                    !.pc = "recvmsg"], net>>
                    ELSE Raise(client, net, "EvaluatorError")
         IN client' = out[1] /\ net' = out[2]
    /\ UNCHANGED <<server, sthread, subproc, env>>

\* sendforce(energy, forces, virial): FORCEREADY, then energy, atom count,
\* forces, virial, the count of extra bytes and the (empty) extra bytes.
sendforce_without_count(w, c) ==
    LET w1 == sendall(w, sendmsg("FORCEREADY"))
        w2 == sendall(w1, send("f64", 1, c.energy))
        w3 == sendall(w2, send("i32", 1, c.fnatoms))
        w4 == sendall(w3, send("f64", c.fnatoms * 3, c.forces))
    IN  sendall(w4, send("f64", 9, c.virial))

sendforce(w, c) ==
    LET w1 == sendall(w, sendmsg("FORCEREADY"))
        w2 == sendall(w1, send("f64", 1, c.energy))
        w3 == sendall(w2, send("i32", 1, c.fnatoms))
        w4 == sendall(w3, send("f64", c.fnatoms * 3, c.forces))
        w5 == sendall(w4, send("f64", 9, c.virial))
        w6 == sendall(w5, send("i32", 1, 0))
    IN  sendall(w6, send("byte", 0, 0))

\* The GETFORCE branch after its assertion: sendforce, then state = 'READY'.
\* The sends cannot block on the peer, so they are taken in one step; bytes
\* sent to a peer that has closed are dropped, and such a send may raise.
ClientSendforce ==
    /\ client.pc = "sendforce"
    /\ \E sr \in SendResults(net.sclosed) :
         LET out ==
           IF sr = "ok"
           THEN <<[client EXCEPT !.pc = "recvmsg", !.state = "READY"],
                  IF net.sclosed THEN net
                  ELSE [net EXCEPT !.c2s = sendforce(@, client)]>>
           ELSE Raise(client, net, "OSError")
         IN client' = out[1] /\ net' = out[2]
    /\ UNCHANGED <<server, sthread, subproc, env>>

---------------------------------------------------------------------------
(* IPIServer and IPIProtocol.calculate *)

NewServer ==
    [port |-> {}, unixsocket |-> "None", timeout |-> "None", closed |-> FALSE,
     proc |-> "None", ipi |-> "None", clientsocket |-> "None",
     serversocket |-> "None"]

NewThread ==
    [pc |-> "new", op |-> "", outcome |-> "none", exc |-> "", status |-> 0,
     geom |-> [natoms |-> 0, tag |-> 0], replies |-> <<>>,
     energy |-> 0, natoms |-> 0, forces |-> 0, virial |-> 0, nmore |-> 0,
     log |-> <<>>, ncalls |-> 0, ncloses |-> 0, accepts |-> 0, warned |-> FALSE,
     nresults |-> 0, csclosed |-> 0, ssclosed |-> 0, waits |-> 0,
     retried |-> FALSE,
     args |-> [port |-> {}, unixsocket |-> "None"]]

\* A call of the driver ends by an exception / by a return.
SRaise(t, exc) ==
    [t EXCEPT !.pc = "idle", !.outcome = "raised", !.exc = exc,
              !.energy = 0, !.natoms = 0, !.forces = 0, !.virial = 0, !.nmore = 0]
SReturn(t) == [t EXCEPT !.pc = "idle", !.outcome = "returned", !.exc = ""]

\* IPIServer.__init__(client_command, port, unixsocket, timeout), called with
\* a port among ports and a socket file among unixsockets.
\* The endpoint checks: both given is an error.  (A port is {} for None.)
endpoint_conflict_unchecked(port, unixsocket) == FALSE

endpoint_conflict(port, unixsocket) == unixsocket # "None" /\ port # {}

IPIServer_init(ports, unixsockets, client_commands) ==
    /\ sthread.pc = "new"
    /\ \E client_command \in client_commands, port \in ports,
          unixsocket \in unixsockets, timeout \in {"None", "finite"} :
         IF endpoint_conflict(port, unixsocket)
         THEN /\ sthread' = [sthread EXCEPT !.pc = "failed", !.op = "init",
                                            !.outcome = "raised", !.exc = "ValueError",
                                            !.args = [port |-> port,
                                                      unixsocket |-> unixsocket]]
              /\ UNCHANGED <<server, subproc, net>>
         ELSE /\ server' = [NewServer EXCEPT
                   !.port = IF unixsocket = "None" /\ port = {}
                            THEN {default_port} ELSE port,
                   !.unixsocket = unixsocket,
                   !.timeout = timeout,
                   !.serversocket = "listening",
                   !.proc = IF client_command # "None" THEN "Popen" ELSE "None"]
              /\ net' = [net EXCEPT !.listen = TRUE]
              /\ subproc' = IF client_command # "None"
                            THEN [state |-> "running", status |-> 0] ELSE subproc
              /\ sthread' = [sthread EXCEPT !.pc = "idle", !.op = "init",
                                            !.outcome = "returned",
                                            !.args = [port |-> port,
                                                      unixsocket |-> unixsocket]]

\* The constructor called with or without a command to launch.
ServerInitWith(ports, unixsockets) ==
    /\ IPIServer_init(ports, unixsockets, {"None", "cmd"})
    /\ UNCHANGED <<client, env>>

\* Any endpoint arguments.
ServerInitAny == ServerInitWith({{}, {3141}}, {"None", "ipi.sock"})

\* The default endpoint: neither port nor unixsocket given.
ServerInit == ServerInitWith({{}}, {"None"})

\* IPIServer.calculate(atoms): assert not closed, accept if there is no
\* connection yet, then IPIProtocol.calculate.
needs_accept_always(srv) == TRUE
needs_accept(srv) == srv.ipi = "None"

\* calculate(): `assert not self._closed`.
assert_not_closed_unchecked(srv) == TRUE

assert_not_closed(srv) == ~srv.closed

IPIServer_calculate ==
    /\ sthread.pc = "idle"
    /\ sthread.ncalls < MaxCalls
    /\ \E natoms \in NAtoms :
         LET t == [sthread EXCEPT !.op = "calculate", !.outcome = "none",
                                  !.exc = "", !.ncalls = @ + 1, !.log = <<>>,
                                  !.replies = <<>>, !.status = 0,
                                  !.energy = 0, !.natoms = 0, !.forces = 0,
                                  !.virial = 0, !.nmore = 0,
                                  !.geom = [natoms |-> natoms, tag |-> sthread.ncalls + 1]]
         IN sthread' = IF ~assert_not_closed(server)
                       THEN SRaise(t, "AssertionError")
                       ELSE IF needs_accept(server) THEN [t EXCEPT !.pc = "accept"]
                       ELSE [t EXCEPT !.pc = "send_STATUS1"]

ServerCalculate ==
    /\ IPIServer_calculate
    /\ UNCHANGED <<server, subproc, client, net, env>>

\* _accept(): serversocket.accept() returns a queued connection.
ServerAcceptOk ==
    /\ sthread.pc = "accept"
    /\ net.conn = "pending"
    /\ net' = [net EXCEPT !.conn = "accepted"]
    /\ server' = [server EXCEPT !.clientsocket = "socket", !.ipi = "IPIProtocol"]
    /\ sthread' = [sthread EXCEPT !.pc = "send_STATUS1", !.accepts = @ + 1,
                                  !.retried = FALSE]
    /\ UNCHANGED <<subproc, client, env>>

\* _accept(): the listening socket's timeout is 1.0 when a subprocess was
\* launched, else the configured one (None: accept never times out).
accept_can_time_out(srv) == srv.proc # "None" \/ srv.timeout # "None"

\* _accept(): what the except socket.timeout clause does: raise if the launched
\* subprocess has terminated, else go round the loop again.
poll_never(srv, sp) == FALSE
poll_or_give_up(srv, sp) == srv.proc = "None" \/ sp.state = "exited"
poll_crashed(srv, sp) == srv.proc # "None" /\ sp.state = "exited"

\* accept() raised socket.timeout; retried records that the loop went round.
ServerAcceptTimeout ==
    /\ sthread.pc = "accept"
    /\ net.conn # "pending"
    /\ accept_can_time_out(server)
    /\ sthread' = IF poll_crashed(server, subproc)
                  THEN [SRaise(sthread, "OSError") EXCEPT !.status = subproc.status,
                                                          !.retried = FALSE]
                  ELSE [sthread EXCEPT !.retried = TRUE]
    /\ UNCHANGED <<server, subproc, client, net, env>>

\* The order of the sends and reads of IPIProtocol.calculate: status(),
\* sendposdata(), status(), sendrecv_force().
calculate_order_pipelined ==
    <<"send_STATUS1", "send_POSDATA", "send_cell", "send_icell",
      "send_natoms", "send_positions", "recv_STATUS1", "send_STATUS2", "recv_STATUS2",
      "send_GETFORCE", "recv_FORCEREADY", "recv_energy", "recv_natoms",
      "recv_forces", "recv_virial", "recv_nmore", "recv_more">>

calculate_order ==
    <<"send_STATUS1", "recv_STATUS1", "send_POSDATA", "send_cell", "send_icell",
      "send_natoms", "send_positions", "send_STATUS2", "recv_STATUS2",
      "send_GETFORCE", "recv_FORCEREADY", "recv_energy", "recv_natoms",
      "recv_forces", "recv_virial", "recv_nmore", "recv_more">>

SendPcs == {"send_STATUS1", "send_POSDATA", "send_cell", "send_icell",
            "send_natoms", "send_positions", "send_STATUS2", "send_GETFORCE"}
RecvmsgPcs == {"recv_STATUS1", "recv_STATUS2", "recv_FORCEREADY"}
RecvPcs == {"recv_energy", "recv_natoms", "recv_forces", "recv_virial",
            "recv_nmore", "recv_more"}

\* The step after pc; "return" after the last one.
StepAfter(pc) ==
    LET i == CHOOSE j \in 1..Len(calculate_order) : calculate_order[j] = pc
    IN  IF i = Len(calculate_order) THEN "return" ELSE calculate_order[i + 1]

\* What each send of calculate() hands to sendall.
ServerFrame(pc, geom) ==
    CASE pc \in {"send_STATUS1", "send_STATUS2"} -> sendmsg("STATUS")
      [] pc = "send_POSDATA" -> sendmsg("POSDATA")
      [] pc \in {"send_cell", "send_icell"} -> send("f64", 9, geom.tag)
      [] pc = "send_natoms" -> send("i32", 1, geom.natoms)
      [] pc = "send_positions" -> send("f64", geom.natoms * 3, geom.tag)
      [] pc = "send_GETFORCE" -> sendmsg("GETFORCE")

\* The sends from pc up to the next read: they cannot block on the peer, so
\* they are taken in one step.
SendRunFrom[pc \in SendPcs \cup RecvmsgPcs \cup RecvPcs \cup {"return"}] ==
    IF pc \in SendPcs THEN <<pc>> \o SendRunFrom[StepAfter(pc)] ELSE <<>>

SendRun(pc) == SendRunFrom[pc]

\* What the driver's log shows of a send: the token, or the array's name.
Sent(pc, geom) ==
    IF ServerFrame(pc, geom).k = "tok" THEN ServerFrame(pc, geom).tok ELSE pc

RECURSIVE SentRun(_, _)
SentRun(run, geom) ==
    IF run = <<>> THEN <<>>
    ELSE <<Sent(Head(run), geom)>> \o SentRun(Tail(run), geom)

RECURSIVE SendFrames(_, _, _)
SendFrames(w, run, geom) ==
    IF run = <<>> THEN w
    ELSE SendFrames(sendall(w, ServerFrame(Head(run), geom)), Tail(run), geom)

\* Bytes sent to a peer that has closed are never read: they are dropped.  Such
\* a send may also raise, after any number of the sends of the run.
ServerSend ==
    /\ sthread.pc \in SendPcs
    /\ LET run == SendRun(sthread.pc) IN
       \E sr \in SendResults(net.cclosed) :
         IF sr = "ok"
         THEN /\ net' = IF net.cclosed THEN net
                        ELSE [net EXCEPT !.s2c = SendFrames(@, run, sthread.geom)]
              /\ sthread' = [sthread EXCEPT !.pc = StepAfter(run[Len(run)]),
                                            !.log = @ \o SentRun(run, sthread.geom)]
         ELSE /\ \E k \in 0..(Len(run) - 1) :
                   sthread' = SRaise([sthread EXCEPT !.log = @ \o SentRun(SubSeq(run, 1, k),
                                                                           sthread.geom)],
                                     "OSError")
              /\ net' = net
    /\ UNCHANGED <<server, subproc, client, env>>

\* The checks calculate() makes on the reply tokens: none on the reply to the
\* first STATUS (the assertion is commented out), HAVEDATA for the second,
\* FORCEREADY for GETFORCE.
status1_ok_asserted(msg) == msg = "READY"
status1_ok(msg) == TRUE
status2_ok_unchecked(msg) == TRUE
status2_ok(msg) == msg = "HAVEDATA"
forceready_ok(msg) == msg = "FORCEREADY"

reply_ok(pc, msg) ==
    CASE pc = "recv_STATUS1" -> status1_ok(msg)
      [] pc = "recv_STATUS2" -> status2_ok(msg)
      [] pc = "recv_FORCEREADY" -> forceready_ok(msg)

ServerRecvmsg ==
    /\ sthread.pc \in RecvmsgPcs
    /\ LET r == recvall(net.c2s, TOKEN_LEN, net.cclosed) IN
       /\ r.status # "wait"
       /\ net' = [net EXCEPT !.c2s = r.rest]
       /\ \E msg \in recvmsg(r.got) :
          LET t1 == [sthread EXCEPT !.replies = Append(@, msg),
                                    !.log = Append(@, sthread.pc)]
          IN sthread' =
              CASE r.status = "SocketClosed" -> SRaise(sthread, "SocketClosed")
                [] msg = "UnicodeDecodeError" -> SRaise(sthread, msg)
                [] ~reply_ok(sthread.pc, msg) -> SRaise(t1, "AssertionError")
                [] OTHER -> [t1 EXCEPT !.pc = StepAfter(sthread.pc)]
    /\ UNCHANGED <<server, subproc, client, env>>

\* The reads of sendrecv_force() after FORCEREADY.
ForceBytes(pc, t) ==
    CASE pc = "recv_energy" -> F64
      [] pc = "recv_natoms" -> I32
      [] pc = "recv_forces" -> F64 * t.natoms * 3
      [] pc = "recv_virial" -> F64 * 9
      [] pc = "recv_nmore" -> I32
      [] pc = "recv_more" -> t.nmore

ForceType(pc) ==
    CASE pc \in {"recv_natoms", "recv_nmore"} -> "i32"
      [] pc = "recv_more" -> "byte"
      [] OTHER -> "f64"

\* calculate() returns the dict built from what sendrecv_force() read.
ServerRecv ==
    /\ sthread.pc \in RecvPcs
    /\ LET nbytes == ForceBytes(sthread.pc, sthread)
           r == recvall(net.c2s, nbytes, net.cclosed)
       IN
       /\ r.status # "wait"
       /\ net' = [net EXCEPT !.c2s = r.rest]
       /\ \E a \in recv(r.got, ForceType(sthread.pc), nbytes) :
          LET t1 == CASE sthread.pc = "recv_energy" -> [sthread EXCEPT !.energy = a.val]
                      [] sthread.pc = "recv_natoms" -> [sthread EXCEPT !.natoms = a.val]
                      [] sthread.pc = "recv_forces" -> [sthread EXCEPT !.forces = a.val]
                      [] sthread.pc = "recv_virial" -> [sthread EXCEPT !.virial = a.val]
                      [] sthread.pc = "recv_nmore" -> [sthread EXCEPT !.nmore = a.val]
                      [] OTHER -> sthread
              t2 == [t1 EXCEPT !.log = Append(@, sthread.pc)]
              nxt == IF sthread.pc = "recv_nmore" /\ ~(a.val > 0)
                     THEN "return" ELSE StepAfter(sthread.pc)
          IN sthread' =
               CASE r.status = "SocketClosed" -> SRaise(sthread, "SocketClosed")
                 [] ~a.ok -> SRaise(sthread, "AssertionError")
                 [] nxt = "return" -> [SReturn(t2) EXCEPT !.nresults = @ + 1]
                 [] OTHER -> [t2 EXCEPT !.pc = nxt]
    /\ UNCHANGED <<server, subproc, client, env>>

\* The driver is inside a read that the stream cannot satisfy yet.
ServerWaiting ==
    /\ sthread.pc \in RecvmsgPcs \cup RecvPcs
    /\ Avail(net.c2s) < (IF sthread.pc \in RecvmsgPcs THEN TOKEN_LEN
                         ELSE ForceBytes(sthread.pc, sthread))

\* A read of the accepted socket raises socket.timeout: the configured timeout
\* passed with fewer bytes than asked for; what had arrived is consumed.
ServerTimeout ==
    /\ ServerWaiting
    /\ server.timeout # "None"
    /\ ~net.cclosed
    /\ net' = [net EXCEPT !.c2s = <<>>]
    /\ sthread' = SRaise(sthread, "timeout")
    /\ UNCHANGED <<server, subproc, client, env>>

\* IPIServer.close() up to proc.wait(): nothing if already closed; else mark
\* closed, drop the protocol object and close the accepted socket.  Without a
\* subprocess the listening socket is closed at once.
CloseListening(n) ==
    [n EXCEPT !.listen = FALSE,
              !.conn = IF n.conn = "pending" THEN "reset" ELSE @]

\* close(): `if self._closed: return`.
already_closed_unchecked(srv) == FALSE
already_closed(srv) == srv.closed

\* close(): `if self.proc is not None: exitcode = self.proc.wait()`.
has_proc_ignored(srv) == FALSE

has_proc(srv) == srv.proc # "None"

ServerClose ==
    /\ sthread.pc = "idle"
    /\ sthread.ncloses < MaxCloses
    /\ LET t == [sthread EXCEPT !.op = "close", !.outcome = "none", !.exc = "",
                                !.ncloses = @ + 1, !.log = <<>>,
                                !.replies = <<>>, !.status = 0,
                                !.energy = 0, !.natoms = 0, !.forces = 0,
                                !.virial = 0, !.nmore = 0,
                                !.geom = [natoms |-> 0, tag |-> 0]]
           t1 == IF server.clientsocket # "None"
                 THEN [t EXCEPT !.csclosed = @ + 1] ELSE t
           n1 == IF server.clientsocket # "None"
                 THEN [net EXCEPT !.sclosed = TRUE] ELSE net
           s1 == [server EXCEPT !.closed = TRUE, !.ipi = "None",
                                !.clientsocket = IF @ # "None" THEN "closed" ELSE @]
       IN
       IF already_closed(server)
       THEN sthread' = SReturn(t) /\ UNCHANGED <<server, net>>
       ELSE IF has_proc(server)
            THEN /\ sthread' = [t1 EXCEPT !.pc = "wait", !.waits = @ + 1]
                 /\ server' = s1
                 /\ net' = n1
            ELSE /\ sthread' = [SReturn(t1) EXCEPT !.ssclosed = @ + 1]
                 /\ server' = [s1 EXCEPT !.serversocket = "closed"]
                 /\ net' = CloseListening(n1)
    /\ UNCHANGED <<subproc, client, env>>

\* close() after proc.wait() returned exitcode: warn if it is not 0, then go on.
on_exitcode_raise(t, exitcode) ==
    IF exitcode # 0
    THEN [SRaise(t, "OSError") EXCEPT !.status = exitcode]
    ELSE [t EXCEPT !.status = exitcode]

on_exitcode(t, exitcode) ==
    [t EXCEPT !.status = exitcode, !.warned = exitcode # 0]

\* IPIServer.close() from proc.wait() on: wait for the subprocess to exit, warn
\* about a nonzero status, close the listening socket.
ServerCloseWait ==
    /\ sthread.pc = "wait"
    /\ subproc.state = "exited"
    /\ LET t == on_exitcode(sthread, subproc.status) IN
       IF t.outcome = "raised"
       THEN sthread' = t /\ UNCHANGED <<server, net>>
       ELSE /\ sthread' = [SReturn(t) EXCEPT !.ssclosed = @ + 1]
            /\ server' = [server EXCEPT !.serversocket = "closed"]
            /\ net' = CloseListening(net)
    /\ UNCHANGED <<subproc, client, env>>

---------------------------------------------------------------------------
(* The arbitrary peer of SpecClient: it accepts the client, sends any      *)
(* tokens in any order, follows POSDATA by a geometry (or stops part way), *)
(* and closes the connection whenever it likes.                            *)

PeerTokens == statements \cup {"READY", "BOGUS"}

\* The frames sendposdata puts on the wire after the POSDATA token, for the
\* geometry of natoms atoms tagged tag.
PosdataFrames(natoms, tag) ==
    <<send("f64", 9, tag), send("f64", 9, tag), send("i32", 1, natoms)>>
    \o (IF natoms > 0 THEN <<send("f64", natoms * 3, tag)>> ELSE <<>>)

PeerAccept ==
    /\ net.conn = "pending"
    /\ net' = [net EXCEPT !.conn = "accepted"]
    /\ UNCHANGED <<server, sthread, subproc, client, env>>

PeerSendToken ==
    /\ net.conn = "accepted" /\ ~net.sclosed
    /\ env.owed = <<>>
    /\ env.ntok < MaxPeerTokens
    /\ \E t \in PeerTokens, natoms \in NAtoms :
         /\ (t # "POSDATA" => natoms = 0)
         /\ net' = [net EXCEPT !.s2c = sendall(@, sendmsg(t))]
         /\ env' = [env EXCEPT !.ntok = @ + 1,
                               !.owed = IF t = "POSDATA"
                                        THEN PosdataFrames(natoms, env.ntok + 1)
                                        ELSE <<>>]
    /\ UNCHANGED <<server, sthread, subproc, client>>

PeerSendPayload ==
    /\ net.conn = "accepted" /\ ~net.sclosed
    /\ env.owed # <<>>
    /\ net' = [net EXCEPT !.s2c = sendall(@, Head(env.owed))]
    /\ env' = [env EXCEPT !.owed = Tail(@)]
    /\ UNCHANGED <<server, sthread, subproc, client>>

PeerClose ==
    /\ net.conn = "accepted" /\ ~net.sclosed
    /\ net' = [net EXCEPT !.sclosed = TRUE]
    /\ UNCHANGED <<server, sthread, subproc, client, env>>

\* The peer dies in the middle of a token: only the first bytes of the 12-byte
\* field reach the stream before its end.  (The bytes are delivered once the
\* client has read what was sent before them; what the client reads up to
\* there does not depend on them.)
PartialTokenLens == {1, TOKEN_LEN - 1}

PeerCloseMidToken ==
    /\ net.conn = "accepted" /\ ~net.sclosed
    /\ env.owed = <<>>
    /\ net.s2c = <<>>
    /\ \E k \in PartialTokenLens :
         net' = [net EXCEPT
                   !.s2c = sendall(@, [k |-> "raw", tok |-> "", val |-> 0, n |-> k]),
                   !.sclosed = TRUE]
    /\ UNCHANGED <<server, sthread, subproc, client, env>>

---------------------------------------------------------------------------
(* The arbitrary engine of SpecServer: it connects (or exits without      *)
(* connecting), sends any reply tokens in any order, follows FORCEREADY by *)
(* a result (or stops part way), and closes or exits whenever it likes.    *)
(* The driver sees of the engine only the bytes its reads return, in       *)
(* order, so bytes the engine sends ahead of a read are indistinguishable  *)
(* from bytes sent during it: the engine sends only while the driver is    *)
(* inside a read that is short of bytes.                                   *)

EngineTokens == responses \cup {"BOGUS"}

\* The frames sendforce puts on the wire after the FORCEREADY token.
ForceFrames(natoms, tag, nmore) ==
    <<send("f64", 1, tag), send("i32", 1, natoms)>>
    \o (IF natoms > 0 THEN <<send("f64", natoms * 3, tag)>> ELSE <<>>)
    \o <<send("f64", 9, tag), send("i32", 1, nmore)>>
    \o (IF nmore > 0 THEN <<send("byte", nmore, tag)>> ELSE <<>>)

EngineConnect ==
    /\ net.listen /\ net.conn = "none"
    /\ subproc.state # "exited"
    /\ net' = [net EXCEPT !.conn = "pending"]
    /\ UNCHANGED <<server, sthread, subproc, client, env>>

EngineSendToken ==
    /\ net.conn \in {"pending", "accepted"} /\ ~net.cclosed
    /\ ServerWaiting
    /\ env.owed = <<>>
    /\ env.ntok < MaxEngineTokens
    /\ \E t \in EngineTokens, natoms \in NAtoms, nmore \in {0, 1} :
         /\ (t # "FORCEREADY" => natoms = 0 /\ nmore = 0)
         /\ net' = [net EXCEPT !.c2s = sendall(@, sendmsg(t))]
         /\ env' = [env EXCEPT !.ntok = @ + 1,
                               !.owed = IF t = "FORCEREADY"
                                        THEN ForceFrames(natoms, env.ntok + 1, nmore)
                                        ELSE <<>>]
    /\ UNCHANGED <<server, sthread, subproc, client>>

EngineSendPayload ==
    /\ net.conn \in {"pending", "accepted"} /\ ~net.cclosed
    /\ ServerWaiting
    /\ env.owed # <<>>
    /\ net' = [net EXCEPT !.c2s = sendall(@, Head(env.owed))]
    /\ env' = [env EXCEPT !.owed = Tail(@)]
    /\ UNCHANGED <<server, sthread, subproc, client>>

EngineClose ==
    /\ net.conn \in {"pending", "accepted"} /\ ~net.cclosed
    /\ net' = [net EXCEPT !.cclosed = TRUE]
    /\ UNCHANGED <<server, sthread, subproc, client, env>>

\* The launched subprocess terminates; the system closes its socket, if any.
SubprocExit ==
    /\ subproc.state = "running"
    /\ \E status \in ExitStatuses :
         subproc' = [state |-> "exited", status |-> status]
    /\ net' = IF net.conn \in {"pending", "accepted"}
              THEN [net EXCEPT !.cclosed = TRUE] ELSE net
    /\ UNCHANGED <<server, sthread, client, env>>

\* In the composed system the launched subprocess is the process running
\* IPIClient: it may die before it connects, and it exits when run() is over.
ClientProcessExit ==
    /\ subproc.state = "running"
    /\ client.pc \in {"new", "done"}
    /\ \E status \in ExitStatuses :
         subproc' = [state |-> "exited", status |-> status]
    /\ UNCHANGED <<server, sthread, client, net, env>>

---------------------------------------------------------------------------
NewNet ==
    [listen |-> FALSE, conn |-> "none", s2c |-> <<>>, c2s |-> <<>>,
     sclosed |-> FALSE, cclosed |-> FALSE]

NewEnv == [ntok |-> 0, owed |-> <<>>]

NoSubproc == [state |-> "none", status |-> 0]

\* IPIClient.run against an arbitrary peer that is already listening.
InitClient ==
    /\ server = NewServer
    /\ sthread = NewThread
    /\ subproc = NoSubproc
    /\ client = NewClient
    /\ net = [NewNet EXCEPT !.listen = TRUE]
    /\ env = NewEnv

NextClient ==
    \/ ClientConnect
    \/ ClientRecvmsg
    \/ ClientRecvposdata
    \/ ClientEvaluate
    \/ ClientSendforce
    \/ PeerAccept
    \/ PeerSendToken
    \/ PeerSendPayload
    \/ PeerClose
    \/ PeerCloseMidToken

SpecClient == InitClient /\ [][NextClient]_vars

\* Before IPIServer is constructed.
Init ==
    /\ server = NewServer
    /\ sthread = NewThread
    /\ subproc = NoSubproc
    /\ client = NewClient
    /\ net = NewNet
    /\ env = NewEnv

\* IPIServer against an arbitrary engine.
NextServer ==
    \/ ServerInit
    \/ ServerCalculate
    \/ ServerAcceptOk
    \/ ServerAcceptTimeout
    \/ ServerSend
    \/ ServerRecvmsg
    \/ ServerRecv
    \/ ServerTimeout
    \/ ServerClose
    \/ ServerCloseWait
    \/ EngineConnect
    \/ EngineSendToken
    \/ EngineSendPayload
    \/ EngineClose
    \/ SubprocExit

SpecServer == Init /\ [][NextServer]_vars

\* IPIServer, constructed with any endpoint arguments, and a process running
\* IPIClient.run, composed.
Next ==
    \/ ServerInitAny
    \/ ServerCalculate
    \/ ServerAcceptOk
    \/ ServerAcceptTimeout
    \/ ServerSend
    \/ ServerRecvmsg
    \/ ServerRecv
    \/ ServerTimeout
    \/ ServerClose
    \/ ServerCloseWait
    \/ ClientConnect
    \/ ClientRecvmsg
    \/ ClientRecvposdata
    \/ ClientEvaluate
    \/ ClientSendforce
    \/ ClientProcessExit

Spec == Init /\ [][Next]_vars

\* IPIServer against an engine, where the driver's blocking calls go on when
\* they can (accept returns or times out) and a launched subprocess does not
\* stay for ever without either connecting or exiting.
FairSpecServer ==
    /\ SpecServer
    /\ WF_vars(ServerAcceptOk)
    /\ WF_vars(ServerAcceptTimeout)
    /\ WF_vars(EngineConnect \/ SubprocExit)

\* The composed system when nothing outside the protocol goes wrong: the
\* server has no read timeout (the default), the atoms' calculator returns
\* its results, and the process running the client lives until run() is over.
ServerInitNoTimeout == ServerInitAny /\ server'.timeout = "None"

ClientEvaluateOk == ClientEvaluate /\ client'.result # "raised"

ClientProcessExitAtEnd == ClientProcessExit /\ client.pc = "done"

\* The steps of IPIServer.calculate and of IPIClient.run.
ServerStep == ServerAcceptOk \/ ServerSend \/ ServerRecvmsg \/ ServerRecv

ClientStep ==
    \/ ClientConnect
    \/ ClientRecvmsg
    \/ ClientRecvposdata
    \/ ClientEvaluateOk
    \/ ClientSendforce

NextReliable ==
    \/ ServerInitNoTimeout
    \/ ServerCalculate
    \/ ServerAcceptOk
    \/ ServerAcceptTimeout
    \/ ServerSend
    \/ ServerRecvmsg
    \/ ServerRecv
    \/ ServerClose
    \/ ServerCloseWait
    \/ ClientConnect
    \/ ClientRecvmsg
    \/ ClientRecvposdata
    \/ ClientEvaluateOk
    \/ ClientSendforce
    \/ ClientProcessExitAtEnd

\* Both are sequential programs doing blocking calls: each goes on whenever
\* the call it is in can return.
FairSpec ==
    /\ Init /\ [][NextReliable]_vars
    /\ WF_vars(ServerStep)
    /\ WF_vars(ClientStep)

---------------------------------------------------------------------------
(* IPICalculator: the calculator that owns an IPIServer, composed with a  *)
(* process running IPIClient.run.  Its fields are kept in env.            *)

\* The kinds of change a caller can report; "numbers" stands for every change
\* that is not in ipi_supported_changes.
Changes == {"positions", "cell", "numbers"}

ipi_supported_changes == {"positions", "cell"}

NoResults == [energy |-> 0, forces |-> 0, stress |-> 0]

\* IPICalculator before __init__ has run.
NewCalculator ==
    [pc |-> "new", calc |-> "None", server |-> "None",
     calculator_initialized |-> FALSE, results |-> NoResults,
     atoms |-> [natoms |-> 0, tag |-> 0], changes |-> {},
     outcome |-> "none", exc |-> "", ncalc |-> 0]

\* launch_server(cmd): IPIServer(client_command=cmd, port=self._port,
\* unixsocket=self._unixsocket, ...), here with the default endpoint.
launch_server(cmd) == IPIServer_init({{}}, {"None"}, {cmd})

\* __init__(calc=None, ...): without a calculator to launch, the server is
\* started at once; with one, it is started by the first calculate().
CalcInit ==
    /\ env.pc = "new"
    /\ \E calc \in {"None", "calc"} :
         IF calc = "None"
         THEN /\ launch_server("None")
              /\ env' = [env EXCEPT !.pc = "idle", !.calc = calc,
                                    !.server = "IPIServer"]
         ELSE /\ env' = [env EXCEPT !.pc = "idle", !.calc = calc]
              /\ UNCHANGED <<server, sthread, subproc, net>>
    /\ UNCHANGED client

\* calculate(): bad = the changes that are not supported;
\* `if self.calculator_initialized and any(bad): raise`.
bad(system_changes) == system_changes \ ipi_supported_changes

change_refused_never(initialized, system_changes) == FALSE

change_refused(initialized, system_changes) ==
    initialized /\ bad(system_changes) # {}

\* calculate(atoms, properties, system_changes) up to the call of
\* server.calculate: the check of the changes, calculator_initialized = True,
\* and the launch of the server if there is none yet.
CalcCalculate ==
    /\ env.pc = "idle"
    /\ sthread.pc \in {"new", "idle"}
    /\ env.ncalc < MaxCalls
    /\ \E system_changes \in SUBSET Changes :
         LET e == [env EXCEPT !.ncalc = @ + 1, !.changes = system_changes,
                              !.outcome = "none", !.exc = ""]
         IN
         IF change_refused(env.calculator_initialized, system_changes)
         THEN /\ env' = [e EXCEPT !.outcome = "raised",
                                  !.exc = "PropertyNotImplementedError"]
              /\ UNCHANGED <<server, sthread, subproc, net>>
         ELSE IF env.server = "None"
              THEN /\ launch_server("cmd")
                   /\ env' = [e EXCEPT !.pc = "server_calculate",
                                       !.calculator_initialized = TRUE,
                                       !.server = "IPIServer"]
              ELSE /\ env' = [e EXCEPT !.pc = "server_calculate",
                                       !.calculator_initialized = TRUE]
                   /\ UNCHANGED <<server, sthread, subproc, net>>
    /\ UNCHANGED client

\* self.atoms = atoms.copy(); results = self.server.calculate(atoms).
CalcServerCalculate ==
    /\ env.pc = "server_calculate"
    /\ IPIServer_calculate
    /\ env' = [env EXCEPT !.pc = "in_server", !.atoms = sthread'.geom]
    /\ UNCHANGED <<server, subproc, client, net>>

\* results['stress'] = -full_3x3_to_voigt_6_stress(virial) / vol, for the
\* results the server returned.
stress(virial) == 0 - virial

\* server.calculate has returned or raised: the results are stored (virial
\* replaced by stress), or the error goes on to the caller.
CalcFinish ==
    /\ env.pc = "in_server"
    /\ sthread.pc = "idle" /\ sthread.op = "calculate"
    /\ env' = IF sthread.outcome = "returned"
              THEN [env EXCEPT !.pc = "idle", !.outcome = "returned",
                               !.results = [energy |-> sthread.energy,
                                            forces |-> sthread.forces,
                                            stress |-> stress(sthread.virial)]]
              ELSE [env EXCEPT !.pc = "idle", !.outcome = "raised",
                               !.exc = sthread.exc]
    /\ UNCHANGED <<server, sthread, subproc, client, net>>

\* close(): `if self.server is not None: self.server.close()`.
CalcClose ==
    /\ env.pc = "idle"
    /\ env.server # "None"
    /\ ServerClose

InitCalculator ==
    /\ server = NewServer
    /\ sthread = NewThread
    /\ subproc = NoSubproc
    /\ client = NewClient
    /\ net = NewNet
    /\ env = NewCalculator

NextCalculator ==
    \/ CalcInit
    \/ CalcCalculate
    \/ CalcServerCalculate
    \/ CalcFinish
    \/ CalcClose
    \/ ServerAcceptOk
    \/ ServerAcceptTimeout
    \/ ServerSend
    \/ ServerRecvmsg
    \/ ServerRecv
    \/ ServerTimeout
    \/ ServerCloseWait
    \/ ClientConnect
    \/ ClientRecvmsg
    \/ ClientRecvposdata
    \/ ClientEvaluate
    \/ ClientSendforce
    \/ ClientProcessExit

SpecCalculator == InitCalculator /\ [][NextCalculator]_vars

---------------------------------------------------------------------------
(* The codec on its own: one token or one array is sent and read back     *)
(* over a stream that delivers the bytes in fragments of any sizes.  The   *)
(* state of the exchange is kept in env.                                   *)

FloatValues == {-2, 0, 3}
IntValues == {-1, 0, 300}

\* What may be on the stream behind the bytes being read: nothing yet, or the
\* first bytes of the message sent next.  (Behind an array of floats the two
\* bytes are always taken to be there: a read that stops where it should
\* never looks at them.)
Following(dtype) == IF dtype = "f64" THEN {<<83, 84>>} ELSE {<<>>, <<83, 84>>}

NewCodec ==
    [pc |-> "start", kind |-> "", dtype |-> "", msg |-> "", a |-> <<>>,
     bytes |-> <<>>, wire |-> <<>>, following |-> <<>>,
     nbytes |-> 0, remaining |-> 0,
     chunks |-> <<>>, reads |-> 0,
     out |-> [status |-> "", msg |-> "", a |-> <<>>]]

InitCodec ==
    /\ server = NewServer
    /\ sthread = NewThread
    /\ subproc = NoSubproc
    /\ client = NewClient
    /\ net = NewNet
    /\ env = NewCodec

\* sendmsg(msg) by one side, recvmsg() begun by the other.
CodecSendmsg ==
    /\ env.pc = "start"
    /\ \E msg \in statements \cup responses, following \in Following("msg") :
         env' = [NewCodec EXCEPT !.pc = "recvall", !.kind = "msg", !.msg = msg,
                                 !.bytes = msg_bytes(msg),
                                 !.wire = msg_bytes(msg) \o following,
                                 !.following = following,
                                 !.nbytes = TOKEN_LEN, !.remaining = TOKEN_LEN]
    /\ UNCHANGED <<server, sthread, subproc, client, net>>

\* send(a, dtype) by one side, recv(shape, dtype) begun by the other: an
\* (N, 3) array of float64 or the int32 atom count.
CodecSend ==
    /\ env.pc = "start"
    /\ \E dtype \in {"f64", "i32"}, natoms \in NAtoms :
       \E following \in Following(dtype),
          a \in IF dtype = "f64" THEN [1..(3 * natoms) -> FloatValues]
                ELSE [1..1 -> IntValues] :
         /\ dtype = "i32" => natoms = 0
         /\ env' = [NewCodec EXCEPT !.pc = "recvall", !.kind = "array",
                                    !.dtype = dtype, !.a = a,
                                    !.bytes = tobytes(a, dtype),
                                    !.wire = tobytes(a, dtype) \o following,
                                    !.following = following,
                                    !.nbytes = itemsize(dtype) * Len(a),
                                    !.remaining = itemsize(dtype) * Len(a)]
    /\ UNCHANGED <<server, sthread, subproc, client, net>>

\* _recvall: while remaining > 0.
recvall_loop_single_read(remaining, reads) == reads = 0

recvall_loop(remaining, reads) == remaining > 0

\* _recvall: `chunk = self.socket.recv(remaining)`: the size asked for.
recv_bufsize_fixed(remaining) == 4096

recv_bufsize(remaining) == remaining

\* _recvall: chunk = socket.recv(remaining) returns any number of the bytes
\* that follow, at least 1 and at most the size asked for; at the end of the
\* stream it returns none and SocketClosed is raised.  The chunks are joined
\* in order.
CodecSocketRecv ==
    /\ env.pc = "recvall"
    /\ recvall_loop(env.remaining, env.reads)
    /\ IF env.wire = <<>> \/ recv_bufsize(env.remaining) = 0
       THEN env' = [env EXCEPT !.pc = "done", !.reads = @ + 1,
                               !.out.status = "SocketClosed"]
       ELSE \E k \in 1..Len(env.wire) :
              /\ k <= recv_bufsize(env.remaining)
              /\ env' = [env EXCEPT !.chunks = @ \o SubSeq(env.wire, 1, k),
                                    !.wire = SubSeq(@, k + 1, Len(@)),
                                    !.remaining = @ - k,
                                    !.reads = @ + 1]
    /\ UNCHANGED <<server, sthread, subproc, client, net>>

\* The end of _recvall and the rest of recvmsg().
CodecRecvmsg ==
    /\ env.pc = "recvall" /\ env.kind = "msg"
    /\ ~recvall_loop(env.remaining, env.reads)
    /\ env' = [env EXCEPT !.pc = "done",
                 !.out = IF Len(env.chunks) # env.nbytes \/ env.remaining # 0
                         THEN [@ EXCEPT !.status = "AssertionError"]
                         ELSE IF decode(rstrip(env.chunks)) = "UnicodeDecodeError"
                         THEN [@ EXCEPT !.status = "UnicodeDecodeError"]
                         ELSE [@ EXCEPT !.status = "ok",
                                        !.msg = decode(rstrip(env.chunks))]]
    /\ UNCHANGED <<server, sthread, subproc, client, net>>

\* The end of _recvall and the rest of recv(shape, dtype).
CodecRecv ==
    /\ env.pc = "recvall" /\ env.kind = "array"
    /\ ~recvall_loop(env.remaining, env.reads)
    /\ env' = [env EXCEPT !.pc = "done",
                 !.out = IF Len(env.chunks) # env.nbytes \/ env.remaining # 0
                            \/ ~isfinite(frombuffer(env.chunks, env.dtype))
                         THEN [@ EXCEPT !.status = "AssertionError"]
                         ELSE [@ EXCEPT !.status = "ok",
                                        !.a = frombuffer(env.chunks, env.dtype)]]
    /\ UNCHANGED <<server, sthread, subproc, client, net>>

NextCodec ==
    \/ CodecSendmsg
    \/ CodecSend
    \/ CodecSocketRecv
    \/ CodecRecvmsg
    \/ CodecRecv

SpecCodec == InitCodec /\ [][NextCodec]_vars

---------------------------------------------------------------------------
(* Properties of IPIClient.run against an arbitrary peer (SpecClient) *)

PayloadPcs == {"recv_cell", "recv_icell", "recv_natoms", "recv_positions"}

\* C1: the client's state is READY at construction and READY or HAVEDATA ever
\* after; it changes only READY -> HAVEDATA, in the step that completes the
\* handling of a POSDATA, and HAVEDATA -> READY, in the step that completes the
\* handling of a GETFORCE; and each such step makes exactly that change.
C1_StateCycle ==
    /\ [](client.pc # "new" => client.state \in {"READY", "HAVEDATA"})
    /\ [][ /\ (client.pc = "new" /\ client'.pc # "new") => client'.state = "READY"
           /\ (client.pc # "new" /\ client'.state # client.state) =>
                 \/ /\ client.state = "READY" /\ client'.state = "HAVEDATA"
                    /\ client.msg = "POSDATA" /\ client.pc = "evaluate"
                 \/ /\ client.state = "HAVEDATA" /\ client'.state = "READY"
                    /\ client.msg = "GETFORCE" /\ client.pc = "sendforce"
           /\ (client.pc = "evaluate" /\ client'.pc = "recvmsg") =>
                 (client.state = "READY" /\ client'.state = "HAVEDATA")
           /\ (client.pc = "sendforce" /\ client'.pc = "recvmsg") =>
                 (client.state = "HAVEDATA" /\ client'.state = "READY")
         ]_vars

C1_Witness ==
    /\ client.pc = "recvmsg" /\ client.state = "READY"
    /\ client.last = "GETFORCE" /\ client.have

\* The next token on the client's stream is illegal for the client's state.
IllegalCommandNext ==
    /\ client.pc = "recvmsg"
    /\ net.s2c # <<>>
    /\ Head(net.s2c).k = "tok"
    /\ \/ Head(net.s2c).tok = "GETFORCE" /\ client.state = "READY"
       \/ Head(net.s2c).tok = "POSDATA" /\ client.state = "HAVEDATA"

\* C2: when the loop reads GETFORCE in state READY or POSDATA in state
\* HAVEDATA, it raises out of the loop in that very step: nothing but the
\* 12-byte token is read, no reply is sent and the state is unchanged.
C2_IllegalCommandFatal ==
    [][ (IllegalCommandNext /\ client' # client) =>
           /\ client'.pc = "done"
           /\ client'.result = "raised"
           /\ client'.exc = "AssertionError"
           /\ client'.state = client.state
           /\ net'.s2c = Tail(net.s2c)
           /\ net'.c2s = net.c2s
      ]_vars

C2_Witness ==
    /\ client.pc = "done" /\ client.result = "raised"
    /\ client.exc = "AssertionError"
    /\ client.msg = "POSDATA" /\ client.state = "HAVEDATA"

\* C7: whenever the loop has terminated, by return or by an error, the client
\* is closed and its socket is closed.
C7_ClosedOnEveryExit ==
    client.pc = "done" => (client.closed /\ net.cclosed)

C7_Witness ==
    /\ client.pc = "done" /\ client.result = "raised"
    /\ client.exc = "EvaluatorError" /\ net.cclosed

\* C8: a peer close seen while waiting for the next token right after a
\* FORCEREADY reply ends the loop by a plain return; a peer close seen while
\* reading the payload of POSDATA ends it by an error.
C8_CloseOutcomeByPlace ==
    (client.pc = "done" /\ client.exc = "SocketClosed") =>
        /\ (client.exitat = "recvmsg" /\ client.last = "GETFORCE")
              => client.result = "returned"
        /\ client.exitat \in PayloadPcs => client.result = "raised"

C8_Witness ==
    /\ client.pc = "done" /\ client.exc = "SocketClosed"
    /\ client.exitat = "recv_positions" /\ client.result = "raised"

C8_WitnessClean ==
    /\ client.pc = "done" /\ client.exc = "SocketClosed"
    /\ client.exitat = "recvmsg" /\ client.last = "GETFORCE"
    /\ client.state = "READY" /\ client.result = "returned"

\* C9: a peer close seen in state HAVEDATA (after a POSDATA, before its
\* GETFORCE) ends the loop by an error, never by a plain return.
C9_MidCycleCloseIsError ==
    (client.pc = "done" /\ client.exc = "SocketClosed"
        /\ client.state = "HAVEDATA") => client.result = "raised"

---------------------------------------------------------------------------
(* Properties of the composed system (Spec) *)

Range(q) == {q[i] : i \in 1..Len(q)}

\* The result that belongs to geometry g: the energy, forces and virial of
\* geometry number g.tag, with one force row per atom.
ResultFor(g) ==
    [energy |-> g.tag, natoms |-> g.natoms,
     forces |-> IF g.natoms > 0 THEN g.tag ELSE 0, virial |-> g.tag]

\* C3: the result a calculate call returns is the evaluator's result for the
\* geometry that same call submitted; and whenever the client's state is
\* HAVEDATA its cached energy, forces and virial exist and are the evaluator's
\* result for the geometry it received last.
C3_ResultOfSameGeometry ==
    /\ (sthread.op = "calculate" /\ sthread.outcome = "returned") =>
          /\ sthread.geom.tag = sthread.ncalls
          /\ sthread.energy = ResultFor(sthread.geom).energy
          /\ sthread.natoms = ResultFor(sthread.geom).natoms
          /\ sthread.forces = ResultFor(sthread.geom).forces
          /\ sthread.virial = ResultFor(sthread.geom).virial
    /\ client.state = "HAVEDATA" =>
          LET g == [tag |-> client.cell, natoms |-> client.natoms]
          IN  /\ client.have
              /\ client.positions = (IF g.natoms > 0 THEN g.tag ELSE 0)
              /\ client.energy = ResultFor(g).energy
              /\ client.fnatoms = ResultFor(g).natoms
              /\ client.forces = ResultFor(g).forces
              /\ client.virial = ResultFor(g).virial

C3_Witness ==
    /\ sthread.op = "calculate" /\ sthread.outcome = "returned"
    /\ sthread.ncalls = 2 /\ sthread.geom.natoms = 1
    /\ sthread.energy = 2 /\ sthread.forces = 2

---------------------------------------------------------------------------
(* Properties of IPIServer against an arbitrary engine (SpecServer) *)

IsPrefix(p, q) == Len(p) <= Len(q) /\ SubSeq(q, 1, Len(p)) = p

\* What one calculate call sends and reads, in order.
ExchangeOrder ==
    <<"STATUS", "recv_STATUS1",
      "POSDATA", "send_cell", "send_icell", "send_natoms", "send_positions",
      "STATUS", "recv_STATUS2",
      "GETFORCE", "recv_FORCEREADY", "recv_energy", "recv_natoms", "recv_forces",
      "recv_virial", "recv_nmore", "recv_more">>

\* C4: at every moment of a calculate call, what the driver has sent and read
\* so far is an initial part of: STATUS, a reply token; POSDATA, cell, inverse
\* cell, atom count, positions; STATUS, a reply token; GETFORCE, a reply token,
\* energy, atom count, forces, virial, extra-byte count, extra bytes.  So each
\* command follows the complete read of the reply to the command before it.
C4_ExchangeOrder ==
    sthread.op = "calculate" => IsPrefix(sthread.log, ExchangeOrder)

C4_Witness ==
    /\ sthread.op = "calculate" /\ sthread.outcome = "returned"
    /\ sthread.log = ExchangeOrder

ReadyFamily == {"READY", "NEEDINIT"}

\* C5 as claimed: POSDATA is sent only after a READY-family reply to the first
\* STATUS.
C5_FirstReplyChecked ==
    (sthread.op = "calculate" /\ "POSDATA" \in Range(sthread.log)) =>
        sthread.replies[1] \in ReadyFamily

\* C5 as amended: the reply to the first STATUS is read and not checked:
\* whatever token was read, calculate goes on to send POSDATA; it fails before
\* POSDATA only when the read itself fails (peer closed, timeout, bytes that do
\* not decode).
C5_FirstReplyNotChecked ==
    [][ (sthread.pc = "recv_STATUS1" /\ sthread' # sthread) =>
           \/ /\ sthread'.pc = "send_POSDATA"
              /\ Len(sthread'.replies) = 1
           \/ /\ sthread'.outcome = "raised"
              /\ sthread'.exc \in {"SocketClosed", "timeout", "UnicodeDecodeError"}
              /\ sthread'.replies = <<>>
      ]_vars

C5_Witness ==
    /\ sthread.op = "calculate" /\ "POSDATA" \in Range(sthread.log)
    /\ sthread.replies[1] = "HAVEDATA"

\* C6: GETFORCE is sent only after the reply HAVEDATA to the second STATUS, the
\* result payload is read only after the reply FORCEREADY to GETFORCE, and a
\* call that read any other reply there has raised and returns no result.
C6_MismatchedReplyFatal ==
    sthread.op = "calculate" =>
      /\ "GETFORCE" \in Range(sthread.log) => sthread.replies[2] = "HAVEDATA"
      /\ "recv_energy" \in Range(sthread.log) => sthread.replies[3] = "FORCEREADY"
      /\ (Len(sthread.replies) >= 2 /\ sthread.replies[2] # "HAVEDATA") =>
            (sthread.outcome = "raised" /\ sthread.exc = "AssertionError")
      /\ (Len(sthread.replies) >= 3 /\ sthread.replies[3] # "FORCEREADY") =>
            (sthread.outcome = "raised" /\ sthread.exc = "AssertionError")
      /\ sthread.outcome = "returned" =>
            (sthread.replies[2] = "HAVEDATA" /\ sthread.replies[3] = "FORCEREADY")

C6_Witness ==
    /\ sthread.op = "calculate" /\ sthread.outcome = "raised"
    /\ Len(sthread.replies) = 3 /\ sthread.replies[3] = "READY"
    /\ "recv_energy" \notin Range(sthread.log)

C6_WitnessStatus ==
    /\ sthread.op = "calculate" /\ sthread.outcome = "raised"
    /\ Len(sthread.replies) = 2 /\ sthread.replies[2] = "READY"
    /\ "GETFORCE" \notin Range(sthread.log)

\* C10: in accept() with a launched subprocess that has exited and no
\* connection queued, the step accept takes is to raise, with the subprocess's
\* exit status, and the server has no connection; and (FairSpecServer) every
\* accept() with a launched subprocess ends, by a connection or by raising.
C10_AcceptEnds ==
    /\ [][ (/\ sthread.pc = "accept" /\ server.proc # "None"
            /\ subproc.state = "exited" /\ net.conn # "pending"
            /\ sthread' # sthread) =>
              /\ sthread'.pc = "idle" /\ sthread'.outcome = "raised"
              /\ sthread'.exc = "OSError" /\ sthread'.status = subproc.status
              /\ server'.ipi = "None" /\ server'.clientsocket = "None"
         ]_vars
    /\ (sthread.pc = "accept" /\ server.proc # "None") ~> (sthread.pc # "accept")

C10_Witness ==
    /\ sthread.op = "calculate" /\ sthread.outcome = "raised"
    /\ sthread.exc = "OSError" /\ sthread.status = 1
    /\ net.conn = "none" /\ server.ipi = "None" /\ server.clientsocket = "None"

---------------------------------------------------------------------------
(* Properties of the lifetime of IPIServer (SpecServer) *)

\* C11: a server accepts at most one connection in its lifetime: calculate()
\* enters accept() only while no connection has been established, and a
\* calculate() called with a connection established starts its exchange at
\* once, on that connection, without accepting.
C11_AtMostOneAccept ==
    /\ [](sthread.accepts <= 1)
    /\ [][ /\ (sthread.pc # "accept" /\ sthread'.pc = "accept") =>
                 (server.ipi = "None" /\ sthread.accepts = 0 /\ net.conn # "accepted")
           /\ (sthread.pc = "idle" /\ sthread'.ncalls = sthread.ncalls + 1
                  /\ server.ipi # "None") =>
                 /\ sthread'.pc = "send_STATUS1"
                 /\ sthread'.accepts = 1
                 /\ server' = server /\ net'.conn = net.conn
         ]_vars

C11_Witness ==
    /\ sthread.op = "calculate" /\ sthread.ncalls = 2
    /\ sthread.accepts = 1 /\ "STATUS" \in Range(sthread.log)
    /\ server.ipi # "None" /\ net.conn = "accepted"

\* C12: close() is idempotent: a close() called after a close() has completed
\* returns at once without raising and changes nothing; over any sequence of
\* close() calls the accepted socket and the listening socket are each closed
\* at most once, exactly once (the accepted one if there is one) when a close()
\* has completed, and the subprocess is waited for at most once.
C12_CloseIdempotent ==
    /\ [](/\ sthread.csclosed <= 1 /\ sthread.ssclosed <= 1 /\ sthread.waits <= 1
          /\ (sthread.op = "close" /\ sthread.pc = "idle") =>
                /\ sthread.outcome = "returned"
                /\ sthread.ssclosed = 1
                /\ sthread.csclosed = sthread.accepts
                /\ sthread.waits = (IF server.proc # "None" THEN 1 ELSE 0))
    /\ [][ (/\ sthread.pc = "idle" /\ sthread.ncloses >= 1
            /\ sthread'.ncloses = sthread.ncloses + 1) =>
              /\ sthread'.pc = "idle" /\ sthread'.outcome = "returned"
              /\ server' = server /\ net' = net /\ subproc' = subproc
              /\ sthread'.csclosed = sthread.csclosed
              /\ sthread'.ssclosed = sthread.ssclosed
              /\ sthread'.waits = sthread.waits
         ]_vars

C12_Witness ==
    /\ sthread.op = "close" /\ sthread.pc = "idle" /\ sthread.ncloses = 2
    /\ sthread.outcome = "returned" /\ server.proc # "None"
    /\ sthread.csclosed = 1 /\ sthread.ssclosed = 1 /\ sthread.waits = 1

---------------------------------------------------------------------------
(* Properties of close() in the composed system (Spec) *)

\* C13: a close() called on a server that never accepted a connection, with
\* or without a launched subprocess, completes: it is never left inside
\* close() with nothing in the system able to take a step; and it does not
\* raise, releases no accepted socket, and ends with the listening socket
\* released and the server closed.
C13_CloseCompletesUnaccepted ==
    (sthread.op = "close" /\ sthread.accepts = 0) =>
        /\ sthread.csclosed = 0
        /\ sthread.outcome # "raised"
        /\ sthread.pc = "idle" =>
              /\ sthread.outcome = "returned"
              /\ server.closed /\ server.serversocket = "closed" /\ ~net.listen
        /\ sthread.pc # "idle" => ENABLED Next

---------------------------------------------------------------------------
(* Properties of the subprocess's exit status (SpecServer) *)

\* C14: whatever the exit status of the launched subprocess, close() does not
\* raise: the step close() takes when proc.wait() returns ends the call by a
\* return with the listening socket released, a nonzero status being recorded
\* and warned about only.  A subprocess's exit makes a call fail only in
\* accept(), before any connection was accepted.
C14_ExitStatusAtCloseNotFatal ==
    /\ [](sthread.op = "close" =>
            /\ sthread.outcome # "raised"
            /\ sthread.pc = "idle" =>
                  /\ sthread.outcome = "returned"
                  /\ server.serversocket = "closed" /\ ~net.listen
                  /\ sthread.warned = (server.proc # "None" /\ subproc.status # 0))
    /\ [][ /\ (sthread.pc = "wait" /\ sthread' # sthread) =>
                 /\ sthread'.pc = "idle" /\ sthread'.outcome = "returned"
                 /\ sthread'.status = subproc.status
                 /\ server'.serversocket = "closed"
           /\ (sthread'.outcome = "raised" /\ sthread.outcome # "raised"
                  /\ sthread'.exc = "OSError" /\ sthread.pc \notin SendPcs) =>
                 /\ sthread.pc = "accept" /\ sthread.accepts = 0
                 /\ subproc.state = "exited" /\ sthread'.status = subproc.status
         ]_vars

C14_Witness ==
    /\ sthread.op = "close" /\ sthread.pc = "idle" /\ sthread.outcome = "returned"
    /\ sthread.nresults = 1 /\ subproc.state = "exited"
    /\ sthread.status = 128 /\ sthread.warned
    /\ server.serversocket = "closed"

\* C15: once a calculate() call has failed in mid-exchange (a mismatched
\* reply, the peer's close, a transport error, a timeout or undecodable
\* bytes), the server's connection is destroyed: its accepted socket is no
\* longer open and it has no protocol object to run an exchange on.
C15_ConnectionDestroyedOnError ==
    (/\ sthread.op = "calculate" /\ sthread.outcome = "raised"
     /\ sthread.accepts = 1 /\ sthread.log # <<>>) =>
        /\ server.clientsocket # "socket"
        /\ server.ipi = "None"

---------------------------------------------------------------------------
(* Properties of the client's handling of EXIT and STATUS (SpecClient) *)

\* The next thing on the client's stream is the whole token tok, and the
\* client is about to read it.
NextToken(tok) ==
    /\ client.pc = "recvmsg"
    /\ net.conn \in {"pending", "accepted"}
    /\ net.s2c # <<>>
    /\ Head(net.s2c).k = "tok" /\ Head(net.s2c).tok = tok

\* What the evaluator has left in the client.
Cache(c) == <<c.have, c.energy, c.fnatoms, c.forces, c.virial>>

\* C16: when the loop reads EXIT, also as the very first token after
\* connecting, it returns in that step without raising, with the socket
\* closed, no reply sent, and the evaluator not called.
C16_ExitIsClean ==
    [][ (NextToken("EXIT") /\ client' # client) =>
           /\ client'.pc = "done" /\ client'.result = "returned"
           /\ client'.closed /\ net'.cclosed
           /\ net'.c2s = net.c2s
           /\ Cache(client') = Cache(client)
           /\ client'.state = client.state
      ]_vars

C16_Witness ==
    /\ client.pc = "done" /\ client.result = "returned" /\ client.last = "EXIT"
    /\ env.ntok = 1 /\ ~client.have /\ client.state = "READY"
    /\ net.cclosed /\ net.c2s = <<>>

\* C17: when the loop reads STATUS it sends exactly one token, its current
\* state (READY or HAVEDATA), and changes neither its state nor its cached
\* result nor the connection, and goes on reading.  (Only when the peer has
\* already closed can the send fail; the error then leaves the loop, state and
\* cache still unchanged.)
C17_StatusReply ==
    [][ (NextToken("STATUS") /\ net'.s2c = Tail(net.s2c)) =>
           /\ client.state \in {"READY", "HAVEDATA"}
           /\ client'.state = client.state
           /\ Cache(client') = Cache(client)
           /\ \/ /\ client'.pc = "recvmsg"
                 /\ ~client'.closed /\ ~net'.cclosed /\ net'.conn = net.conn
                 /\ net'.c2s = (IF net.sclosed THEN net.c2s
                                ELSE Append(net.c2s, sendmsg(client.state)))
              \/ /\ net.sclosed
                 /\ client'.pc = "done" /\ client'.result = "raised"
                 /\ client'.exc = "OSError" /\ net'.c2s = net.c2s
      ]_vars

C17_Witness ==
    /\ client.pc = "recvmsg" /\ client.last = "STATUS"
    /\ client.state = "HAVEDATA" /\ client.have
    /\ ~net.sclosed /\ ~net.cclosed
    /\ net.c2s = <<sendmsg("HAVEDATA")>>

---------------------------------------------------------------------------
(* Properties of the construction of IPIServer (Spec) *)

\* C18: constructing a server with both a port and a socket file raises
\* ValueError with no socket bound and no subprocess launched; with neither,
\* the port is 31415; and every constructed server has exactly one of port and
\* socket file set, namely the one given (or the default port).
C18_SingleEndpoint ==
    /\ [](/\ sthread.pc = "failed" =>
                /\ sthread.args.port # {} /\ sthread.args.unixsocket # "None"
                /\ sthread.outcome = "raised" /\ sthread.exc = "ValueError"
                /\ server = NewServer /\ net = NewNet /\ subproc = NoSubproc
          /\ sthread.pc \notin {"new", "failed"} =>
                /\ (server.port = {}) # (server.unixsocket = "None")
                /\ Cardinality(server.port) <= 1
                /\ ~(sthread.args.port # {} /\ sthread.args.unixsocket # "None")
                /\ server.unixsocket = sthread.args.unixsocket
                /\ server.port = (IF sthread.args.port = {}
                                     /\ sthread.args.unixsocket = "None"
                                  THEN {31415} ELSE sthread.args.port))
    /\ [][sthread.pc = "failed" => sthread'.pc = "failed"]_vars

C18_Witness ==
    /\ sthread.pc = "idle" /\ sthread.op = "close"
    /\ sthread.args = [port |-> {}, unixsocket |-> "None"]
    /\ server.port = {31415} /\ server.unixsocket = "None"

C18_WitnessConflict ==
    /\ sthread.pc = "failed" /\ sthread.exc = "ValueError"
    /\ server.serversocket = "None" /\ subproc.state = "none"

---------------------------------------------------------------------------
(* Properties of the codec (SpecCodec) *)

\* C19: for every token of the vocabulary, sendmsg writes exactly 12 bytes,
\* the token's text followed by spaces, and recvmsg applied to those 12 bytes,
\* however the stream fragments them, returns the token's text.
C19_TokenRoundTrip ==
    env.kind = "msg" =>
        /\ env.msg \in statements \cup responses
        /\ Len(env.bytes) = 12
        /\ SubSeq(env.bytes, 1, Len(encode(env.msg))) = encode(env.msg)
        /\ \A i \in (Len(encode(env.msg)) + 1)..12 : env.bytes[i] = 32
        /\ env.pc = "done" => (env.out.status = "ok" /\ env.out.msg = env.msg)

C19_Witness ==
    /\ env.kind = "msg" /\ env.pc = "done" /\ env.msg = "FORCEREADY"
    /\ env.reads = 12 /\ env.out.status = "ok" /\ env.out.msg = "FORCEREADY"

\* C20: for every array of N >= 0 atoms and every way the stream fragments its
\* bytes, recv reads until it has exactly itemsize * count bytes, no more, and
\* returns the array that was sent; for N = 0 it returns the empty array
\* without reading from the stream.
C20_ArrayRoundTrip ==
    (env.kind = "array" /\ env.pc = "done") =>
        /\ env.out.status = "ok"
        /\ env.out.a = [i \in 1..Len(env.a) |-> Num(env.a[i])]
        /\ Len(env.chunks) = itemsize(env.dtype) * Len(env.a)
        /\ env.chunks = env.bytes /\ env.wire = env.following
        /\ Len(env.a) = 0 => env.reads = 0

C20_Witness ==
    /\ env.kind = "array" /\ env.pc = "done" /\ env.dtype = "f64"
    /\ env.a = <<-2, 3, 0>> /\ env.reads = 24
    /\ env.out.status = "ok" /\ env.out.a = <<Num(-2), Num(3), Num(0)>>

C20_WitnessEmpty ==
    /\ env.kind = "array" /\ env.pc = "done" /\ env.dtype = "f64"
    /\ env.a = <<>> /\ env.reads = 0 /\ env.out.status = "ok" /\ env.out.a = <<>>

---------------------------------------------------------------------------
\* The stream has ended inside a token: some of its 12 bytes, not all, are
\* what is left for the client to read.
TruncatedToken ==
    /\ client.pc = "recvmsg"
    /\ net.conn \in {"pending", "accepted"}
    /\ net.sclosed
    /\ Avail(net.s2c) > 0 /\ Avail(net.s2c) < TOKEN_LEN

\* C21: a stream that ends after 1..11 bytes of a token is a transport error
\* distinct from the peer having closed: the client loop does not leave
\* cleanly on it, it raises an error other than SocketClosed.
C21_TruncatedTokenIsError ==
    [][ (TruncatedToken /\ client' # client) =>
           /\ client'.result = "raised"
           /\ client'.exc # "SocketClosed"
      ]_vars

\* C22: the first effective close() releases in a fixed order: the accepted
\* socket is closed first, then a launched subprocess is waited for until it
\* has exited, and only then is the listening socket closed, each of them
\* once.  The listening socket is never closed while a launched subprocess is
\* still running.
C22_CloseOrder ==
    /\ (server.proc # "None" /\ subproc.state # "exited") =>
          (net.listen /\ server.serversocket = "listening")
    /\ sthread.pc = "wait" =>
          /\ server.closed /\ server.clientsocket # "socket"
          /\ server.serversocket = "listening" /\ net.listen
          /\ sthread.waits = 1 /\ sthread.ssclosed = 0
    /\ server.serversocket = "closed" =>
          /\ server.closed /\ server.clientsocket # "socket"
          /\ sthread.ssclosed = 1
          /\ sthread.waits = (IF server.proc # "None" THEN 1 ELSE 0)
    /\ sthread.csclosed <= 1 /\ sthread.waits <= 1 /\ sthread.ssclosed <= 1
    /\ sthread.csclosed = 1 <=> server.clientsocket = "closed"

\* A server with a launched subprocess and an accepted connection has been
\* closed: the wait returned and the listening socket was closed after it.
C22_Witness ==
    /\ server.proc # "None" /\ subproc.state = "exited"
    /\ sthread.op = "close" /\ sthread.pc = "idle"
    /\ sthread.csclosed = 1 /\ sthread.waits = 1 /\ sthread.ssclosed = 1
    /\ server.serversocket = "closed" /\ ~net.listen

\* C23: only the first calculate() of an IPICalculator accepts arbitrary
\* system changes.  Once calculate() has been entered, a later calculate()
\* whose changes include anything but positions and cell raises
\* PropertyNotImplementedError before the server is launched or contacted:
\* nothing is sent, the server, the connection and the stored results are as
\* before.  Every other call goes on to the server exchange.
C23_ChangesAfterFirstCall ==
    [][ (env.pc = "idle" /\ env'.ncalc = env.ncalc + 1) =>
          IF env.ncalc > 0 /\ ~(env'.changes \subseteq {"positions", "cell"})
          THEN /\ env'.pc = "idle"
               /\ env'.outcome = "raised"
               /\ env'.exc = "PropertyNotImplementedError"
               /\ env'.results = env.results
               /\ env'.server = env.server
               /\ UNCHANGED <<server, sthread, subproc, client, net>>
          ELSE /\ env'.pc = "server_calculate"
               /\ env'.calculator_initialized
               /\ env'.server = "IPIServer"
               /\ sthread'.pc = "idle" /\ sthread'.ncalls < MaxCalls
      ]_vars

\* A second calculate() reporting a change of numbers has been refused, after a
\* first one that reported it too and stored its results.
C23_Witness ==
    /\ env.ncalc = 2 /\ env.pc = "idle"
    /\ env.outcome = "raised" /\ env.exc = "PropertyNotImplementedError"
    /\ "numbers" \in env.changes
    /\ env.results # NoResults
    /\ sthread.ncalls = 1 /\ sthread.outcome = "returned"

\* A second calculate() reporting only positions and cell has gone through the
\* exchange with the client.
C23_WitnessSupported ==
    /\ env.ncalc = 2 /\ env.pc = "idle" /\ env.outcome = "returned"
    /\ env.changes = {"positions", "cell"}
    /\ sthread.ncalls = 2 /\ env.results.energy = 2

\* The server is inside calculate() waiting for bytes that are not there, and
\* the client is waiting for bytes that are not there either.
ServerBlocked ==
    /\ sthread.op = "calculate"
    /\ sthread.pc \in RecvmsgPcs \cup RecvPcs
    /\ ~ENABLED (ServerRecvmsg \/ ServerRecv)

ClientBlocked ==
    /\ client.pc \in {"recvmsg", "recv_cell", "recv_icell", "recv_natoms",
                       "recv_positions"}
    /\ ~ENABLED (ClientRecvmsg \/ ClientRecvposdata)

CalculateRunning ==
    sthread.op = "calculate" /\ sthread.pc # "idle" /\ ~server.closed

CalculateReturned ==
    sthread.op = "calculate" /\ sthread.pc = "idle" /\ sthread.outcome = "returned"

C25_NoOverRead ==
    /\ [](env.pc \in {"recvall", "done"} =>
            /\ env.remaining >= 0
            /\ env.remaining + Len(env.chunks) = env.nbytes
            /\ env.chunks \o env.wire = env.bytes \o env.following
            /\ (env.pc = "done" /\ env.out.status = "ok") =>
                  (Len(env.chunks) = env.nbytes /\ env.wire = env.following))
    /\ [][env.pc = "recvall" =>
            Len(env.wire) - Len(env'.wire) <= env.remaining]_vars

\* A token was read in several chunks while the first bytes of the next
\* message were already on the stream: they are still there.
C25_Witness ==
    /\ env.kind = "msg" /\ env.pc = "done" /\ env.out.status = "ok"
    /\ env.following # <<>> /\ env.wire = env.following
    /\ env.reads = 3 /\ env.remaining = 0

\* The tokens the client loop has no branch for.
IgnoredTokens == PeerTokens \ {"EXIT", "STATUS", "POSDATA", "GETFORCE"}

\* C26: a token that is none of EXIT, STATUS, POSDATA, GETFORCE is ignored by
\* the client loop, in state READY as in state HAVEDATA: its 12 bytes are
\* consumed and nothing else happens, no reply, no payload read, no change of
\* state, geometry or cached result, no error, and the loop reads the next
\* token.
C26_OtherTokenIgnored ==
    [][ \A tok \in IgnoredTokens :
          (NextToken(tok) /\ client' # client) =>
             /\ client' = [client EXCEPT !.msg = tok, !.last = tok]
             /\ client'.pc = "recvmsg" /\ client'.result = "none"
             /\ client'.state = client.state
             /\ Cache(client') = Cache(client)
             /\ net' = [net EXCEPT !.s2c = Tail(net.s2c)]
      ]_vars

\* INIT was ignored in state READY, and an unknown word in state HAVEDATA.
C26_Witness ==
    /\ client.pc = "recvmsg" /\ client.last = "BOGUS"
    /\ client.state = "HAVEDATA" /\ client.have
    /\ net.c2s = <<>> /\ ~client.closed

C26_WitnessReady ==
    /\ client.pc = "recvmsg" /\ client.last = "INIT"
    /\ client.state = "READY" /\ env.ntok = 1
    /\ net.c2s = <<>> /\ ~client.closed

\* C27: when no subprocess was launched, accept() never fails because of a
\* timeout: a timeout of the configured finite timeout is swallowed and the
\* accept retried, so accept() is left only when a client has connected, by
\* returning its connection.
C27_AcceptWithoutSubprocess ==
    [][ (sthread.pc = "accept" /\ server.proc = "None" /\ sthread' # sthread) =>
          \/ /\ sthread' = [sthread EXCEPT !.retried = TRUE]
             /\ server' = server /\ net' = net
          \/ /\ net.conn = "pending"
             /\ sthread'.pc = "send_STATUS1" /\ sthread'.outcome = "none"
             /\ sthread'.accepts = sthread.accepts + 1
             /\ server'.clientsocket = "socket" /\ net'.conn = "accepted"
      ]_vars

\* accept() timed out on a server with a finite timeout and no subprocess, and
\* is waiting again.
C27_Witness ==
    /\ sthread.pc = "accept" /\ sthread.retried
    /\ server.proc = "None" /\ server.timeout = "finite"
    /\ sthread.outcome = "none"

\* ... and returned the connection of the client that came afterwards.
C27_WitnessAccepted ==
    /\ sthread.accepts = 1 /\ sthread.outcome = "returned"
    /\ server.proc = "None" /\ server.timeout = "finite"

\* C28: calculate() called after close() fails at once with an assertion
\* error: no accept, no bytes sent, and the server's closed flag, its
\* sockets, its subprocess handle, the subprocess and the connection are as
\* they were.
C28_CalculateAfterClose ==
    [][ (server.closed /\ sthread.pc = "idle"
           /\ sthread'.ncalls = sthread.ncalls + 1) =>
          /\ sthread'.pc = "idle" /\ sthread'.op = "calculate"
          /\ sthread'.outcome = "raised" /\ sthread'.exc = "AssertionError"
          /\ sthread'.accepts = sthread.accepts /\ sthread'.log = <<>>
          /\ server' = server /\ net' = net /\ subproc' = subproc
      ]_vars

\* calculate() was refused on a server closed after a complete exchange, its
\* subprocess waited for.
C28_Witness ==
    /\ server.closed /\ sthread.op = "calculate" /\ sthread.pc = "idle"
    /\ sthread.outcome = "raised" /\ sthread.exc = "AssertionError"
    /\ sthread.ncalls = 2 /\ sthread.nresults = 1 /\ sthread.accepts = 1
    /\ server.proc # "None" /\ server.serversocket = "closed"
    /\ server.clientsocket = "closed" /\ server.ipi = "None"

====
